---- MODULE Spec2Model ----
(***************************************************************************)
(* A model of backend/suitability_analyzer.py (SuitabilityAnalyzer and     *)
(* its command-line main) and of backend/api_server.py: the background     *)
(* task run_analysis on its own (Spec), and the /analyze and /status       *)
(* handlers with the threads they start (SpecServer).  SpecNorm is         *)
(* normalize_raster_values called directly, once or repeatedly.            *)
(*                                                                         *)
(* Numbers.  Raster cells, weights and scores are exact rationals          *)
(* <<numerator, denominator>> in lowest terms; the not-a-number marker of  *)
(* numpy is the pair <<0, 0>>.  Comparisons with NaN are false and         *)
(* arithmetic on NaN gives NaN, as in IEEE-754.  Binary rounding error of  *)
(* float32 is not modelled, except that np.round is allowed to go either   *)
(* way on an exact tie.                                                    *)
(*                                                                         *)
(* Rasters.  A raster is a tuple of cells (the 2-D array flattened).  All  *)
(* rasters of one data folder lie on the same grid, so warp.reproject is   *)
(* the identity on them.                                                   *)
(***************************************************************************)
EXTENDS Integers, Sequences, FiniteSets, TLC

VARIABLES
    \* --- one run of calculate_suitability and of its caller -------------
    caller,              \* "main" or "run_analysis"
    files,               \* data folder: factor -> [status, data] of its raster file;
                         \* data is the band once the run has read it
    arg_weights,         \* the weights argument: [given, map]; given = FALSE is None
    pc,                  \* position in calculate_suitability / in the caller
    weights,             \* local `weights` after renormalization (factor -> percent)
    reference_file,      \* factor whose file is the spatial reference, or "none"
    normalized_factors,  \* factor -> normalized raster, for the loaded factors
    total_weights_used,  \* scalar sum of the applied weight fractions
    suitability,         \* the local array `suitability`
    overlay_ran,         \* TRUE once the NDVI penalty block has executed
    exc,                 \* exception that left calculate_suitability / save, or "none"
    save_calls,          \* number of invocations of save_suitability_raster
    file_written,        \* TRUE when the output raster has been written
    current_analysis,    \* api_server.current_analysis: the dict the global is
                         \* bound to, as a record of its keys; Idle stands for None
    exit_code,           \* return value of main, -1 while it runs
    \* --- calls of normalize_raster_values on their own --------------------
    n_pc, n_factor, n_data, n_out,
    n_before,            \* factor_name of the call before this one, or "none"
    \* --- the server of api_server.py under several requests --------------
    accepted,            \* number of /analyze requests accepted so far; the k-th
                         \* accepted request is invocation k
    thread_pc,           \* invocation -> position of its run_analysis thread
    thread_locals,       \* invocation -> locals of its thread: suitability_data
                         \* and the exception e caught at line 158
    written_by,          \* key of the current status dict -> invocation whose
                         \* statement stored the value (0: none); history variable
    http_response        \* the last response the server sent

evars == <<caller, files, arg_weights, pc, weights, reference_file,
           normalized_factors, total_weights_used, suitability, overlay_ran,
           exc, save_calls, file_written, current_analysis, exit_code>>
nvars == <<n_pc, n_factor, n_data, n_out, n_before>>
svars == <<accepted, thread_pc, thread_locals, written_by, http_response>>
vars == <<evars, nvars, svars>>

-----------------------------------------------------------------------------
(* Bounds of the model *)

\* number of cells of every raster of the data folder
NCells == 1
\* longest raster handed to normalize_raster_values on its own
MaxGridLen == 2
\* number of /analyze requests the server accepts
MaxRequests == 2

-----------------------------------------------------------------------------
(* Exact rational arithmetic with NaN *)

RECURSIVE GCD(_, _)
GCD(a, b) == IF b = 0 THEN a ELSE GCD(b, a % b)

Abs(n) == IF n < 0 THEN -n ELSE n

NaN == <<0, 0>>

isnan(x) == x[2] = 0

\* the rational n/d (d > 0) in lowest terms
Rat(n, d) ==
    LET g == GCD(Abs(n), d)
    IN  <<n \div g, d \div g>>

Num(n) == <<n, 1>>

Lt(a, b) == ~isnan(a) /\ ~isnan(b) /\ a[1] * b[2] < b[1] * a[2]
Le(a, b) == ~isnan(a) /\ ~isnan(b) /\ a[1] * b[2] <= b[1] * a[2]
Eq(a, b) == ~isnan(a) /\ ~isnan(b) /\ a[1] * b[2] = b[1] * a[2]

Add(a, b) ==
    IF isnan(a) \/ isnan(b) THEN NaN
    ELSE Rat(a[1] * b[2] + b[1] * a[2], a[2] * b[2])

Mul(a, b) ==
    IF isnan(a) \/ isnan(b) THEN NaN
    ELSE Rat(a[1] * b[1], a[2] * b[2])

\* a / b for b > 0
Div(a, b) ==
    IF isnan(a) \/ isnan(b) THEN NaN
    ELSE Rat(a[1] * b[2], a[2] * b[1])

-----------------------------------------------------------------------------
(* SuitabilityAnalyzer.__init__ *)

\* self.factor_files, in the insertion order that every loop iterates
factor_files ==
    << "fertility", "moisture", "soc", "ndvi", "nitrogen",
       "phosphorus", "potassium", "ph", "texture", "sulphur" >>

Factors == {factor_files[i] : i \in DOMAIN factor_files}

default_weights ==
    [f \in Factors |->
        CASE f = "fertility"  -> 30
          [] f = "moisture"   -> 25
          [] f = "soc"        -> 12
          [] f = "ndvi"       -> 12
          [] f = "nitrogen"   -> 8
          [] f = "phosphorus" -> 7
          [] f = "potassium"  -> 6
          [] f = "ph"         -> 6
          [] f = "texture"    -> 3
          [] f = "sulphur"    -> 1]

-----------------------------------------------------------------------------
(* SuitabilityAnalyzer.normalize_raster_values *)

\* the cell rule of each branch, as the nested np.where evaluates it on one
\* cell; a NaN cell fails every comparison and falls through to the last value
\* norm_ph with the first band closed at 4.5
norm_ph_closed(x) ==
    IF Le(x, Rat(45, 10)) THEN Rat(1, 10)
    ELSE IF Lt(x, Rat(55, 10)) THEN Rat(3, 10)
    ELSE IF Lt(x, Num(6)) THEN Rat(6, 10)
    ELSE IF Le(x, Rat(75, 10)) THEN Num(1)
    ELSE IF Le(x, Rat(85, 10)) THEN Rat(7, 10)
    ELSE IF Le(x, Num(9)) THEN Rat(4, 10)
    ELSE Rat(1, 10)

norm_ph(x) ==
    IF Lt(x, Rat(45, 10)) THEN Rat(1, 10)
    ELSE IF Lt(x, Rat(55, 10)) THEN Rat(3, 10)
    ELSE IF Lt(x, Num(6)) THEN Rat(6, 10)
    ELSE IF Le(x, Rat(75, 10)) THEN Num(1)
    ELSE IF Le(x, Rat(85, 10)) THEN Rat(7, 10)
    ELSE IF Le(x, Num(9)) THEN Rat(4, 10)
    ELSE Rat(1, 10)

norm_fertility(x) ==
    IF Eq(x, Num(0)) THEN Num(1)
    ELSE IF Le(x, Num(4)) THEN Rat(8, 10)
    ELSE IF Le(x, Num(8)) THEN Rat(6, 10)
    ELSE IF Le(x, Num(12)) THEN Rat(4, 10)
    ELSE IF Le(x, Num(36)) THEN Rat(2, 10)
    ELSE Num(0)

\* np.select over the five conditions, default 0; the result array is integer
norm_ndvi(x) ==
    IF Eq(x, Num(1)) THEN Num(10)
    ELSE IF Eq(x, Num(2)) THEN Num(40)
    ELSE IF Eq(x, Num(3)) THEN Num(100)
    ELSE IF Eq(x, Num(4)) THEN Num(80)
    ELSE IF Eq(x, Num(5)) THEN Num(20)
    ELSE Num(0)

norm_nitrogen(x) == IF Eq(x, Num(5)) THEN Num(1) ELSE Num(0)

norm_potassium(x) == IF Eq(x, Num(5)) THEN Num(1) ELSE Num(0)

norm_phosphorus(x) ==
    IF Eq(x, Num(5)) THEN Num(1)
    ELSE IF Eq(x, Num(4)) THEN Rat(66, 100)
    ELSE IF Eq(x, Num(3)) THEN Rat(33, 100)
    ELSE IF Eq(x, Num(2)) THEN Num(0)
    ELSE Num(0)

norm_soc(x) ==
    IF Lt(x, Num(1)) THEN Rat(2, 10)
    ELSE IF Lt(x, Rat(15, 10)) THEN Rat(4, 10)
    ELSE IF Lt(x, Num(2)) THEN Rat(6, 10)
    ELSE IF Lt(x, Rat(25, 10)) THEN Rat(8, 10)
    ELSE Num(1)

norm_texture(x) ==
    IF Eq(x, Num(5)) THEN Num(1)
    ELSE IF Eq(x, Num(4)) THEN Rat(66, 100)
    ELSE IF Eq(x, Num(2)) THEN Rat(33, 100)
    ELSE IF Eq(x, Num(1)) THEN Rat(2, 10)
    ELSE IF Eq(x, Num(0)) THEN Num(0)
    ELSE Num(0)

norm_moisture(x) ==
    IF Eq(x, Num(10)) THEN Num(0)
    ELSE IF Eq(x, Num(9)) THEN Rat(1, 10)
    ELSE IF Eq(x, Num(8)) THEN Rat(3, 10)
    ELSE IF Eq(x, Num(7)) THEN Rat(5, 10)
    ELSE IF Eq(x, Num(6)) THEN Rat(7, 10)
    ELSE IF Eq(x, Num(5)) THEN Num(1)
    ELSE IF Eq(x, Num(4)) THEN Rat(7, 10)
    ELSE IF Eq(x, Num(3)) THEN Rat(5, 10)
    ELSE IF Eq(x, Num(0)) THEN Num(0)
    ELSE Num(0)

norm_sulphur(x) ==
    IF Lt(x, Rat(25, 10)) THEN Num(0)
    ELSE IF Lt(x, Rat(35, 10)) THEN Rat(33, 100)
    ELSE IF Lt(x, Rat(45, 10)) THEN Rat(66, 100)
    ELSE Num(1)

\* np.clip(x, 0, 1); NaN stays NaN
norm_default(x) ==
    IF isnan(x) THEN NaN
    ELSE IF Lt(x, Num(0)) THEN Num(0)
    ELSE IF Lt(Num(1), x) THEN Num(1)
    ELSE x

\* the if/elif chain on factor_name, applied to one cell
norm_rule(x, factor_name) ==
    CASE factor_name = "ph"         -> norm_ph(x)
      [] factor_name = "fertility"  -> norm_fertility(x)
      [] factor_name = "nitrogen"   -> norm_nitrogen(x)
      [] factor_name = "potassium"  -> norm_potassium(x)
      [] factor_name = "phosphorus" -> norm_phosphorus(x)
      [] factor_name = "soc"        -> norm_soc(x)
      [] factor_name = "texture"    -> norm_texture(x)
      [] factor_name = "moisture"   -> norm_moisture(x)
      [] factor_name = "sulphur"    -> norm_sulphur(x)
      [] OTHER                      -> norm_default(x)

normalize_raster_values(raster_data, factor_name) ==
    LET valid_mask == [i \in DOMAIN raster_data |-> ~isnan(raster_data[i])]
        normalized == [i \in DOMAIN raster_data |->
                          norm_rule(raster_data[i], factor_name)]
    IN  IF factor_name = "ndvi"
        THEN \* early return of the np.select result (line 80)
             [i \in DOMAIN raster_data |-> norm_ndvi(raster_data[i])]
        ELSE \* normalized[~valid_mask] = np.nan (line 132)
             [i \in DOMAIN raster_data |->
                 IF valid_mask[i] THEN normalized[i] ELSE NaN]

-----------------------------------------------------------------------------
(* Inputs of a run: the data folder and the weights argument *)

\* the factors whose file the data folder may hold and that a weight set
\* given on the command line may name; every other factor has no file
ScopeFactors == {"fertility", "ndvi", "ph"}

\* raw cell values of a readable raster of each factor in scope
RawCells(f) ==
    CASE f = "fertility" -> {NaN, Num(0), Num(5)}
      [] f = "ndvi"      -> {NaN, Num(1), Num(2), Num(3), Num(5)}
      [] f = "ph"        -> {Num(5), Num(7)}

\* weights a weight set gives to a factor
WeightValues == {0, 25, 75}

Cells == 1 .. NCells

NoFile == [status |-> "absent", data |-> <<>>]

\* a file is absent, cannot be opened (rasterio.open raises), opens but fails
\* in src.read (a truncated band), or is a readable raster
FileStatus == {"absent", "badopen", "badread", "ok"}

Folders ==
    {[f \in Factors |->
         IF f \in ScopeFactors THEN [status |-> st[f], data |-> <<>>] ELSE NoFile] :
        st \in [ScopeFactors -> FileStatus]}

\* the bands that src.read(1) can return for the factors in `toread`: every
\* mapping of each of them to a raster over its raw cell values
RECURSIVE Bands(_)
Bands(toread) ==
    IF toread = {} THEN {<<>>}
    ELSE LET f == CHOOSE x \in toread : TRUE
         IN  {(f :> g) @@ b :
                 b \in Bands(toread \ {f}), g \in [Cells -> RawCells(f)]}

\* main: no weights argument (None), or any mapping parsed from --weights
MainWeights ==
    {[given |-> FALSE, map |-> <<>>]}
    \cup {[given |-> TRUE, map |-> m] :
            m \in UNION {[S -> WeightValues] : S \in SUBSET ScopeFactors}}

\* run_analysis: analyze_suitability has checked that every factor of
\* default_weights has an entry (api_server.py lines 107-113)
RunAnalysisWeights ==
    {[given |-> TRUE,
      map |-> [f \in Factors |-> IF f \in ScopeFactors THEN m[f] ELSE 0]] :
        m \in [ScopeFactors -> WeightValues]}

exists(f) == files[f].status # "absent"

-----------------------------------------------------------------------------
(* SuitabilityAnalyzer.calculate_suitability, step by step *)

\* sum(weights.values())
RECURSIVE SumOver(_, _)
SumOver(w, i) ==
    IF i = 0 THEN 0
    ELSE SumOver(w, i - 1)
         + (IF factor_files[i] \in DOMAIN w THEN w[factor_files[i]] ELSE 0)

sum_values(w) == SumOver(w, Len(factor_files))

\* lines 184-190: the default weights for None, then the renormalization to
\* 100; the result maps each named factor to its percentage (a rational)
renormalize(w, total_weight) ==
    IF total_weight # 100
    THEN [k \in DOMAIN w |-> Mul(Rat(w[k], total_weight), Num(100))]
    ELSE [k \in DOMAIN w |-> Num(w[k])]

\* a reference selection that falls back on the first factor when no file
\* exists, instead of reporting that none was found
RECURSIVE FirstExistingOrFirst(_)
FirstExistingOrFirst(i) ==
    IF i > Len(factor_files) THEN 1
    ELSE IF exists(factor_files[i]) THEN i
    ELSE FirstExistingOrFirst(i + 1)

\* lines 198-206: index in factor_files of the first factor whose file
\* exists, 0 when there is none
RECURSIVE FirstExisting(_)
FirstExisting(i) ==
    IF i > Len(factor_files) THEN 0
    ELSE IF exists(factor_files[i]) THEN i
    ELSE FirstExisting(i + 1)

\* load_and_normalize_factor: <<>> stands for the (None, None) it returns
\* when the file is absent or when opening or reading it raises; `band` is
\* what src.read(1) returns, with the nodata cells already NaN
load_and_normalize_factor(factor_name, band) ==
    IF ~exists(factor_name) THEN <<>>
    ELSE IF files[factor_name].status # "ok" THEN <<>>
    ELSE normalize_raster_values(band, factor_name)

\* the factors whose band the loop reads: named in the weights, file readable
read_by_loop(w) == {f \in Factors : f \in DOMAIN w /\ files[f].status = "ok"}

\* the band of `factor_name` among those read, <<>> when it was not read
band_of(bands, factor_name) ==
    IF factor_name \in DOMAIN bands THEN bands[factor_name] ELSE <<>>

\* lines 219-229: normalized_factors after the loop, the weighted factors
\* whose load returned data
loaded_factors(w, bands) ==
    LET loaded == {f \in Factors \cap DOMAIN w :
                      load_and_normalize_factor(f, band_of(bands, f)) # <<>>}
    IN  [f \in loaded |-> load_and_normalize_factor(f, bands[f])]

\* line 232: weight = weights[factor_name] / 100.0
weight_fraction(w, factor_name) == Div(w[factor_name], Num(100))

\* lines 235-236 on one cell: the masked in-place addition
add_weighted(cell, normalized_value, weight) ==
    IF ~isnan(normalized_value)
    THEN Add(cell, Mul(normalized_value, weight))
    ELSE cell

\* lines 214-236: cell c of `suitability` after the first i factors of the loop
RECURSIVE suitability_after(_, _, _, _)
suitability_after(w, nf, i, c) ==
    IF i = 0 THEN Num(0)
    ELSE IF factor_files[i] \in DOMAIN nf
    THEN add_weighted(suitability_after(w, nf, i - 1, c),
                      nf[factor_files[i]][c],
                      weight_fraction(w, factor_files[i]))
    ELSE suitability_after(w, nf, i - 1, c)

\* lines 216-237: total_weights_used after the first i factors of the loop
RECURSIVE total_after(_, _, _)
total_after(w, nf, i) ==
    IF i = 0 THEN Num(0)
    ELSE IF factor_files[i] \in DOMAIN nf
    THEN Add(total_after(w, nf, i - 1), weight_fraction(w, factor_files[i]))
    ELSE total_after(w, nf, i - 1)

\* an aggregation that leaves out the division by the applied weight
rescale_skipped(suit, total) == suit

\* lines 242-244
rescale(suit, total) ==
    IF Lt(Num(0), total)
    THEN [i \in Cells |-> Div(suit[i], total)]
    ELSE suit

\* a penalty block whose poor mask tests raw value 1 only
apply_penalties_poor1(suit, ndvi_original) ==
    LET ndvi_poor_mask == [i \in Cells |-> Eq(ndvi_original[i], Num(1))]
        ndvi_forest_mask == [i \in Cells |-> Eq(ndvi_original[i], Num(5))]
        poor == [i \in Cells |-> IF ndvi_poor_mask[i] THEN Rat(1, 10) ELSE suit[i]]
    IN  [i \in Cells |-> IF ndvi_forest_mask[i] THEN Rat(2, 10) ELSE poor[i]]

\* lines 270-274 on the raw NDVI band
apply_penalties(suit, ndvi_original) ==
    LET ndvi_poor_mask == [i \in Cells |-> Eq(ndvi_original[i], Num(1))
                                           \/ Eq(ndvi_original[i], Num(2))]
        ndvi_forest_mask == [i \in Cells |-> Eq(ndvi_original[i], Num(5))]
        poor == [i \in Cells |-> IF ndvi_poor_mask[i] THEN Rat(1, 10) ELSE suit[i]]
    IN  [i \in Cells |-> IF ndvi_forest_mask[i] THEN Rat(2, 10) ELSE poor[i]]

\* line 247: the guard of the penalty block
penalty_guard(nf) == "ndvi" \in DOMAIN nf

\* np.round(x, 1) of one cell: the nearest multiples of 0.1; on an exact
\* tie either neighbour, since the float32 value lies on one side of it
round1(x) ==
    IF isnan(x) THEN {NaN}
    ELSE LET k == (10 * x[1]) \div x[2]
             r == 10 * x[1] - k * x[2]
         IN  IF 2 * r < x[2] THEN {Rat(k, 10)}
             ELSE IF 2 * r > x[2] THEN {Rat(k + 1, 10)}
             ELSE {Rat(k, 10), Rat(k + 1, 10)}

\* np.clip(x, 0, 100) of one cell
clip100(x) ==
    IF isnan(x) THEN NaN
    ELSE IF Lt(x, Num(0)) THEN Num(0)
    ELSE IF Lt(Num(100), x) THEN Num(100)
    ELSE x

\* line 279: the grids that np.round(suitability, 1) can produce
round_grid(suit) ==
    {g \in [Cells -> UNION {round1(suit[i]) : i \in Cells}] :
        \A i \in Cells : g[i] \in round1(suit[i])}

\* lines 282-285: the x100 rescale, then the clip
to_percent(suit) == [i \in Cells |-> clip100(Mul(suit[i], Num(100)))]

-----------------------------------------------------------------------------
(* State machine of one run *)

\* api_server.py line 26: current_analysis = None, which /status reports as
\* idle (lines 189-193)
Idle == [status |-> "idle", progress |-> 0]

\* api_server.py lines 116-120
processing_status ==
    [status |-> "processing", progress |-> 0, message |-> "Starting analysis..."]

ValidOf(grid) == {i \in DOMAIN grid : ~isnan(grid[i])}

\* np.nanmin, np.nanmax (lines 152-153); NaN when every cell is NaN
nanmin(grid) ==
    IF ValidOf(grid) = {} THEN NaN
    ELSE LET i == CHOOSE i \in ValidOf(grid) :
                     \A j \in ValidOf(grid) : Le(grid[i], grid[j])
         IN  grid[i]

nanmax(grid) ==
    IF ValidOf(grid) = {} THEN NaN
    ELSE LET i == CHOOSE i \in ValidOf(grid) :
                     \A j \in ValidOf(grid) : Le(grid[j], grid[i])
         IN  grid[i]

RECURSIVE SumCells(_, _)
SumCells(grid, S) ==
    IF S = {} THEN Num(0)
    ELSE LET i == CHOOSE i \in S : TRUE
         IN  Add(grid[i], SumCells(grid, S \ {i}))

\* np.nanmean (line 154)
nanmean(grid) ==
    IF ValidOf(grid) = {} THEN NaN
    ELSE Div(SumCells(grid, ValidOf(grid)), Num(Cardinality(ValidOf(grid))))

\* api_server.py lines 290-293: the server is started as a script, and the
\* script binds the module global np before it calls main
np_is_unbound == FALSE

np_is_bound == TRUE

\* api_server.py lines 159-163
error_status(e) ==
    [status |-> "error", progress |-> 0, message |-> "Analysis failed: " \o e]

\* api_server.py lines 143-156; the keys output_file, layer_name, filename
\* and custom_name hold names, which are not modelled.  Evaluating
\* np.nanmin with np unbound raises NameError inside the try, and the
\* handler of line 158 stores the error status instead.
completed_status(grid) ==
    IF np_is_bound
    THEN [status |-> "completed", progress |-> 100,
          message |-> "Analysis completed successfully",
          statistics |-> [min_suitability |-> nanmin(grid),
                          max_suitability |-> nanmax(grid),
                          mean_suitability |-> nanmean(grid)]]
    ELSE error_status("name 'np' is not defined")

\* no request has reached the server
ServerOff ==
    /\ accepted = 0
    /\ thread_pc = <<>>
    /\ thread_locals = <<>>
    /\ written_by = <<>>
    /\ http_response = [code |-> 0, body |-> <<>>]

NormIdle ==
    /\ n_pc = "off"
    /\ n_factor = "none"
    /\ n_data = <<>>
    /\ n_out = <<>>
    /\ n_before = "none"

\* main has parsed its arguments (lines 328-348), or analyze_suitability has
\* set current_analysis and started the thread (api_server.py lines 116-168)
Init ==
    /\ caller \in {"main", "run_analysis"}
    /\ files \in Folders
    /\ arg_weights \in (IF caller = "main" THEN MainWeights ELSE RunAnalysisWeights)
    /\ pc = "start"
    /\ weights = <<>>
    /\ reference_file = "none"
    /\ normalized_factors = <<>>
    /\ total_weights_used = Num(0)
    /\ suitability = <<>>
    /\ overlay_ran = FALSE
    /\ exc = "none"
    /\ save_calls = 0
    /\ file_written = FALSE
    /\ current_analysis = (IF caller = "main" THEN Idle ELSE processing_status)
    /\ exit_code = -1
    /\ NormIdle
    /\ ServerOff

\* suitability_analyzer.py main, line 352: the call
MainCall ==
    /\ pc = "start" /\ caller = "main"
    /\ pc' = "weights"
    /\ UNCHANGED <<caller, files, arg_weights, weights, reference_file,
                   normalized_factors, total_weights_used, suitability,
                   overlay_ran, exc, save_calls, file_written,
                   current_analysis, exit_code, nvars, svars>>

\* run_analysis, lines 126-130: progress 25, then the call
RunAnalysisCall ==
    /\ pc = "start" /\ caller = "run_analysis"
    /\ current_analysis' = [current_analysis EXCEPT
                                !.message = "Calculating suitability...",
                                !.progress = 25]
    /\ pc' = "weights"
    /\ UNCHANGED <<caller, files, arg_weights, weights, reference_file,
                   normalized_factors, total_weights_used, suitability,
                   overlay_ran, exc, save_calls, file_written, exit_code, nvars, svars>>

\* lines 184-192; dividing by a total of 0 raises ZeroDivisionError
NormalizeWeights ==
    /\ pc = "weights"
    /\ LET w == IF arg_weights.given THEN arg_weights.map ELSE default_weights
           total_weight == sum_values(w)
       IN  IF total_weight = 0 /\ DOMAIN w # {}
           THEN /\ exc' = "ZeroDivisionError"
                /\ pc' = "raised"
                /\ UNCHANGED weights
           ELSE /\ weights' = renormalize(w, total_weight)
                /\ pc' = "reference"
                /\ UNCHANGED exc
    /\ UNCHANGED <<caller, files, arg_weights, reference_file,
                   normalized_factors, total_weights_used, suitability,
                   overlay_ran, save_calls, file_written, current_analysis,
                   exit_code, nvars, svars>>

\* lines 194-211; rasterio.open of the first existing file is not guarded
SelectReference ==
    /\ pc = "reference"
    /\ LET i == FirstExisting(1)
       IN  IF i = 0
           THEN /\ exc' = "FileNotFoundError"
                /\ pc' = "raised"
                /\ UNCHANGED reference_file
           ELSE IF files[factor_files[i]].status = "badopen"
           THEN /\ exc' = "RasterioIOError"
                /\ pc' = "raised"
                /\ UNCHANGED reference_file
           ELSE /\ reference_file' = factor_files[i]
                /\ pc' = "factors"
                /\ UNCHANGED exc
    /\ UNCHANGED <<caller, files, arg_weights, weights, normalized_factors,
                   total_weights_used, suitability, overlay_ran, save_calls,
                   file_written, current_analysis, exit_code, nvars, svars>>

\* lines 213-239
ProcessFactors ==
    /\ pc = "factors"
    /\ \E bands \in Bands(read_by_loop(weights)) :
          /\ normalized_factors' = loaded_factors(weights, bands)
          /\ suitability' =
                [c \in Cells |->
                    suitability_after(weights, normalized_factors',
                                      Len(factor_files), c)]
          /\ total_weights_used' =
                total_after(weights, normalized_factors', Len(factor_files))
          /\ files' = [f \in Factors |->
                          IF f \in DOMAIN bands
                          THEN [files[f] EXCEPT !.data = bands[f]]
                          ELSE files[f]]
    /\ pc' = "rescale"
    /\ UNCHANGED <<caller, arg_weights, weights, reference_file,
                   overlay_ran, exc, save_calls, file_written,
                   current_analysis, exit_code, nvars, svars>>

\* lines 241-244
Rescale ==
    /\ pc = "rescale"
    /\ suitability' = rescale(suitability, total_weights_used)
    /\ pc' = "penalty"
    /\ UNCHANGED <<caller, files, arg_weights, weights, reference_file,
                   normalized_factors, total_weights_used, overlay_ran, exc,
                   save_calls, file_written, current_analysis, exit_code, nvars, svars>>

\* lines 246-276; the file was read by load_and_normalize_factor before, so
\* it exists and reads again, with the same band
ApplyPenalty ==
    /\ pc = "penalty"
    /\ IF penalty_guard(normalized_factors)
       THEN /\ suitability' = apply_penalties(suitability, files["ndvi"].data)
            /\ overlay_ran' = TRUE
       ELSE UNCHANGED <<suitability, overlay_ran>>
    /\ pc' = "discretize"
    /\ UNCHANGED <<caller, files, arg_weights, weights, reference_file,
                   normalized_factors, total_weights_used, exc, save_calls,
                   file_written, current_analysis, exit_code, nvars, svars>>

\* lines 278-279
Discretize ==
    /\ pc = "discretize"
    /\ suitability' \in round_grid(suitability)
    /\ pc' = "percent"
    /\ UNCHANGED <<caller, files, arg_weights, weights, reference_file,
                   normalized_factors, total_weights_used, overlay_ran, exc,
                   save_calls, file_written, current_analysis, exit_code, nvars, svars>>

\* lines 281-289: the grid that calculate_suitability returns
ToPercent ==
    /\ pc = "percent"
    /\ suitability' = to_percent(suitability)
    /\ pc' = "returned"
    /\ UNCHANGED <<caller, files, arg_weights, weights, reference_file,
                   normalized_factors, total_weights_used, overlay_ran, exc,
                   save_calls, file_written, current_analysis, exit_code, nvars, svars>>

\* main, lines 355-358 and 360-364: save_suitability_raster writes the file
\* and main returns 0, or the write raises and main returns 1
MainSave ==
    /\ pc = "returned" /\ caller = "main"
    /\ save_calls' = save_calls + 1
    /\ \E ok \in BOOLEAN :
          /\ file_written' = ok
          /\ exc' = (IF ok THEN exc ELSE "WriteError")
          /\ exit_code' = (IF ok THEN 0 ELSE 1)
    /\ pc' = "done"
    /\ UNCHANGED <<caller, files, arg_weights, weights, reference_file,
                   normalized_factors, total_weights_used, suitability,
                   overlay_ran, current_analysis, nvars, svars>>

\* main, lines 360-364
MainFail ==
    /\ pc = "raised" /\ caller = "main"
    /\ exit_code' = 1
    /\ pc' = "done"
    /\ UNCHANGED <<caller, files, arg_weights, weights, reference_file,
                   normalized_factors, total_weights_used, suitability,
                   overlay_ran, exc, save_calls, file_written,
                   current_analysis, nvars, svars>>

\* run_analysis, lines 132-133
RunAnalysisSaving ==
    /\ pc = "returned" /\ caller = "run_analysis"
    /\ current_analysis' = [current_analysis EXCEPT
                                !.message = "Saving results...",
                                !.progress = 75]
    /\ pc' = "save"
    /\ UNCHANGED <<caller, files, arg_weights, weights, reference_file,
                   normalized_factors, total_weights_used, suitability,
                   overlay_ran, exc, save_calls, file_written, exit_code, nvars, svars>>

\* run_analysis, lines 136-163: the save, then the completed status, or the
\* error status when the write raises
RunAnalysisSave ==
    /\ pc = "save" /\ caller = "run_analysis"
    /\ save_calls' = save_calls + 1
    /\ \E ok \in BOOLEAN :
          /\ file_written' = ok
          /\ exc' = (IF ok THEN exc ELSE "WriteError")
          /\ current_analysis' =
                (IF ok THEN completed_status(suitability)
                 ELSE error_status("WriteError"))
    /\ pc' = "done"
    /\ UNCHANGED <<caller, files, arg_weights, weights, reference_file,
                   normalized_factors, total_weights_used, suitability,
                   overlay_ran, exit_code, nvars, svars>>

\* run_analysis, lines 158-163
RunAnalysisFail ==
    /\ pc = "raised" /\ caller = "run_analysis"
    /\ current_analysis' = error_status(exc)
    /\ pc' = "done"
    /\ UNCHANGED <<caller, files, arg_weights, weights, reference_file,
                   normalized_factors, total_weights_used, suitability,
                   overlay_ran, exc, save_calls, file_written, exit_code, nvars, svars>>

Next ==
    \/ MainCall
    \/ RunAnalysisCall
    \/ NormalizeWeights
    \/ SelectReference
    \/ ProcessFactors
    \/ Rescale
    \/ ApplyPenalty
    \/ Discretize
    \/ ToPercent
    \/ MainSave
    \/ MainFail
    \/ RunAnalysisSaving
    \/ RunAnalysisSave
    \/ RunAnalysisFail

Spec == Init /\ [][Next]_vars

-----------------------------------------------------------------------------
(* normalize_raster_values called on its own *)

\* an identifier that is no key of factor_files: the else branch (line 127)
UnknownFactor == "elevation"

\* raw cell values, in tenths, around every threshold and table entry of
\* the rule of each factor
NormTenths(f) ==
    CASE f = "ph"         -> {44, 45, 54, 55, 59, 60, 70, 75, 76, 85, 86, 90, 91}
      [] f = "fertility"  -> {0, 10, 40, 41, 80, 81, 120, 121, 360, 370}
      [] f = "ndvi"       -> {0, 10, 15, 20, 30, 40, 50, 60}
      [] f = "nitrogen"   -> {0, 40, 50, 60}
      [] f = "potassium"  -> {0, 40, 50, 60}
      [] f = "phosphorus" -> {10, 20, 30, 35, 40, 50, 60}
      [] f = "soc"        -> {9, 10, 14, 15, 19, 20, 24, 25, 30}
      [] f = "texture"    -> {0, 10, 20, 30, 40, 50, 60}
      [] f = "moisture"   -> {0, 10, 20, 30, 40, 50, 60, 70, 80, 90, 100, 110}
      [] f = "sulphur"    -> {20, 24, 25, 34, 35, 44, 45, 50}
      [] OTHER            -> {-10, 0, 5, 10, 20}

NormCells(f) == {NaN} \cup {Rat(t, 10) : t \in NormTenths(f)}

NormRasters(f) == UNION {[1 .. n -> NormCells(f)] : n \in 1 .. MaxGridLen}

EngineOff ==
    /\ caller = "none"
    /\ files = [f \in Factors |-> NoFile]
    /\ arg_weights = [given |-> FALSE, map |-> <<>>]
    /\ pc = "off"
    /\ weights = <<>>
    /\ reference_file = "none"
    /\ normalized_factors = <<>>
    /\ total_weights_used = Num(0)
    /\ suitability = <<>>
    /\ overlay_ran = FALSE
    /\ exc = "none"
    /\ save_calls = 0
    /\ file_written = FALSE
    /\ current_analysis = Idle
    /\ exit_code = -1

NormInit ==
    /\ EngineOff
    /\ ServerOff
    /\ n_pc = "call"
    /\ n_factor \in Factors \cup {UnknownFactor}
    /\ n_data \in NormRasters(n_factor)
    /\ n_out = <<>>
    /\ n_before = "none"

\* the call normalize_raster_values(raster_data, factor_name)
NormCall ==
    /\ n_pc = "call"
    /\ n_out' = normalize_raster_values(n_data, n_factor)
    /\ n_pc' = "returned"
    /\ UNCHANGED <<evars, n_factor, n_data, n_before, svars>>

\* the same analyzer object is handed the next raster, of one cell, for any
\* factor identifier
NormNextInput ==
    /\ n_pc = "returned"
    /\ \E f \in Factors \cup {UnknownFactor} :
          /\ n_factor' = f
          /\ n_data' \in [1 .. 1 -> NormCells(f)]
    /\ n_before' = n_factor
    /\ n_out' = <<>>
    /\ n_pc' = "call"
    /\ UNCHANGED <<evars, svars>>

NormNext ==
    \/ NormCall
    \/ NormNextInput

SpecNorm == NormInit /\ [][NormNext]_vars

-----------------------------------------------------------------------------
(* The server of api_server.py: /analyze requests, their run_analysis       *)
(* threads and /status reads.  Every statement of run_analysis that loads   *)
(* or rebinds the global current_analysis is one step; there is no lock in  *)
(* the module, so the steps of the threads and the handlers interleave      *)
(* freely.  calculate_suitability and save_suitability_raster are taken by  *)
(* their outcome here: a returned grid or an exception.                     *)

\* evars without current_analysis
engine_rest == <<caller, files, arg_weights, pc, weights, reference_file,
                 normalized_factors, total_weights_used, suitability,
                 overlay_ran, exc, save_calls, file_written, exit_code>>

Invocations == 1 .. accepted

\* grids calculate_suitability hands back to run_analysis
ServerGrids == {[c \in Cells |-> Num(0)], [c \in Cells |-> Num(100)]}

NoLocals == [suitability_data |-> <<>>, e |-> "none"]

\* current_analysis[key] = value, executed by the thread of invocation t:
\* the store goes to whatever dict the global is bound to at that moment
store_key(t, key, value) ==
    /\ current_analysis' = [current_analysis EXCEPT ![key] = value]
    /\ written_by' = [written_by EXCEPT ![key] = t]

\* current_analysis = dict, executed on behalf of invocation t
rebind(t, dict) ==
    /\ current_analysis' = dict
    /\ written_by' = [k \in DOMAIN dict |-> t]

ServerInit ==
    /\ EngineOff
    /\ NormIdle
    /\ ServerOff

\* analyze_suitability, lines 89-176, for a body that names every factor:
\* nothing asks whether an analysis is running
analyze_suitability ==
    /\ accepted < MaxRequests
    /\ accepted' = accepted + 1
    /\ rebind(accepted + 1, processing_status)
    /\ thread_pc' = Append(thread_pc, "l126")
    /\ thread_locals' = Append(thread_locals, NoLocals)
    /\ http_response' = [code |-> 200, body |-> [status |-> "started"]]
    /\ UNCHANGED <<engine_rest, nvars>>

\* analyze_suitability, lines 92-96, 108-113 and 178-182: no 'weights', a
\* factor without weight (400), or a body that is no JSON (500)
analyze_rejected ==
    /\ \E code \in {400, 500} :
          http_response' = [code |-> code, body |-> [status |-> "error"]]
    /\ UNCHANGED <<evars, nvars, accepted, thread_pc, thread_locals, written_by>>

\* get_analysis_status, lines 184-195
get_analysis_status ==
    /\ http_response' = [code |-> 200, body |-> current_analysis]
    /\ UNCHANGED <<evars, nvars, accepted, thread_pc, thread_locals, written_by>>

\* run_analysis, line 126
run_analysis_l126(t) ==
    /\ thread_pc[t] = "l126"
    /\ store_key(t, "message", "Calculating suitability...")
    /\ thread_pc' = [thread_pc EXCEPT ![t] = "l127"]
    /\ UNCHANGED <<engine_rest, nvars, accepted, thread_locals, http_response>>

\* run_analysis, line 127
run_analysis_l127(t) ==
    /\ thread_pc[t] = "l127"
    /\ store_key(t, "progress", 25)
    /\ thread_pc' = [thread_pc EXCEPT ![t] = "l130"]
    /\ UNCHANGED <<engine_rest, nvars, accepted, thread_locals, http_response>>

\* run_analysis, line 130: calculate_suitability returns a grid or raises
run_analysis_l130(t) ==
    /\ thread_pc[t] = "l130"
    /\ \/ \E grid \in ServerGrids :
             /\ thread_locals' =
                   [thread_locals EXCEPT ![t].suitability_data = grid]
             /\ thread_pc' = [thread_pc EXCEPT ![t] = "l132"]
       \/ /\ thread_locals' = [thread_locals EXCEPT ![t].e = "FileNotFoundError"]
          /\ thread_pc' = [thread_pc EXCEPT ![t] = "l159"]
    /\ UNCHANGED <<evars, nvars, accepted, written_by, http_response>>

\* run_analysis, line 132
run_analysis_l132(t) ==
    /\ thread_pc[t] = "l132"
    /\ store_key(t, "message", "Saving results...")
    /\ thread_pc' = [thread_pc EXCEPT ![t] = "l133"]
    /\ UNCHANGED <<engine_rest, nvars, accepted, thread_locals, http_response>>

\* run_analysis, line 133
run_analysis_l133(t) ==
    /\ thread_pc[t] = "l133"
    /\ store_key(t, "progress", 75)
    /\ thread_pc' = [thread_pc EXCEPT ![t] = "l138"]
    /\ UNCHANGED <<engine_rest, nvars, accepted, thread_locals, http_response>>

\* run_analysis, lines 136-141: the write succeeds or raises
run_analysis_l138(t) ==
    /\ thread_pc[t] = "l138"
    /\ \/ /\ thread_pc' = [thread_pc EXCEPT ![t] = "l143"]
          /\ UNCHANGED thread_locals
       \/ /\ thread_locals' = [thread_locals EXCEPT ![t].e = "WriteError"]
          /\ thread_pc' = [thread_pc EXCEPT ![t] = "l159"]
    /\ UNCHANGED <<evars, nvars, accepted, written_by, http_response>>

\* run_analysis, lines 143-156, and the end of the thread
run_analysis_l143(t) ==
    /\ thread_pc[t] = "l143"
    /\ rebind(t, completed_status(thread_locals[t].suitability_data))
    /\ thread_pc' = [thread_pc EXCEPT ![t] = "ended"]
    /\ thread_locals' = [thread_locals EXCEPT ![t] = NoLocals]
    /\ UNCHANGED <<engine_rest, nvars, accepted, http_response>>

\* run_analysis, lines 158-163, and the end of the thread
run_analysis_l159(t) ==
    /\ thread_pc[t] = "l159"
    /\ rebind(t, error_status(thread_locals[t].e))
    /\ thread_pc' = [thread_pc EXCEPT ![t] = "ended"]
    /\ thread_locals' = [thread_locals EXCEPT ![t] = NoLocals]
    /\ UNCHANGED <<engine_rest, nvars, accepted, http_response>>

ServerNext ==
    \/ analyze_suitability
    \/ analyze_rejected
    \/ get_analysis_status
    \/ \E t \in Invocations : run_analysis_l126(t)
    \/ \E t \in Invocations : run_analysis_l127(t)
    \/ \E t \in Invocations : run_analysis_l130(t)
    \/ \E t \in Invocations : run_analysis_l132(t)
    \/ \E t \in Invocations : run_analysis_l133(t)
    \/ \E t \in Invocations : run_analysis_l138(t)
    \/ \E t \in Invocations : run_analysis_l143(t)
    \/ \E t \in Invocations : run_analysis_l159(t)

SpecServer == ServerInit /\ [][ServerNext]_vars

-----------------------------------------------------------------------------
(* Properties *)

Loaded == DOMAIN normalized_factors

\* the raw band of a loaded factor, as load_and_normalize_factor read it
RawBand(f) == files[f].data

\* the penalty block ran and flags cell c (raw NDVI value 1, 2 or 5)
Overridden(c) ==
    /\ overlay_ran
    /\ \/ Eq(RawBand("ndvi")[c], Num(1))
       \/ Eq(RawBand("ndvi")[c], Num(2))
       \/ Eq(RawBand("ndvi")[c], Num(5))

\* C1: whenever the NDVI raster file exists and reads, the grid that
\* calculate_suitability returns has been through the penalty overlay,
\* whatever the weight set names.
C1_PenaltyWheneverNdviFileExists ==
    (pc = "returned" /\ files["ndvi"].status = "ok") => overlay_ran

\* C2: in the returned grid, a cell that is missing in the raw band of every
\* loaded factor is missing (NaN), unless the penalty overlay overrides it.
C2_MissingStaysMissing ==
    (pc = "returned" /\ Loaded # {}) =>
        \A c \in Cells :
            ((\A f \in Loaded : isnan(RawBand(f)[c])) /\ ~Overridden(c))
                => isnan(suitability[c])

\* C3: for every factor identifier and every input raster,
\* normalize_raster_values returns a raster of the same shape in which
\* every cell that is missing in the input is missing.
C3_NormalizePreservesMissing ==
    n_pc = "returned" =>
        /\ DOMAIN n_out = DOMAIN n_data
        /\ \A i \in DOMAIN n_data : isnan(n_data[i]) => isnan(n_out[i])

\* C4: when the total weight applied by the aggregation is 0,
\* calculate_suitability fails and returns no grid.
C4_ZeroAppliedWeightIsFatal ==
    pc \in {"penalty", "discretize", "percent", "returned"}
        => Lt(Num(0), total_weights_used)

\* C5: an unreadable raster file is treated like a missing one at every
\* stage: the run never aborts on it, and reference selection skips it.
C5_MalformedFileIsSkipped ==
    /\ exc # "RasterioIOError"
    /\ reference_file # "none" => files[reference_file].status = "ok"

\* the weights the caller's weight set gives, before any renormalization
GivenWeights == IF arg_weights.given THEN arg_weights.map ELSE default_weights

\* sum of normalized_i * w_i at cell c and sum of w_i, over the factors of S
RECURSIVE WeightedSum(_, _)
WeightedSum(S, c) ==
    IF S = {} THEN Num(0)
    ELSE LET f == CHOOSE x \in S : TRUE
         IN  Add(Mul(normalized_factors[f][c], Num(GivenWeights[f])),
                 WeightedSum(S \ {f}, c))

RECURSIVE WeightSum(_)
WeightSum(S) ==
    IF S = {} THEN 0
    ELSE LET f == CHOOSE x \in S : TRUE
         IN  GivenWeights[f] + WeightSum(S \ {f})

\* the weighted mean of the loaded factors at cell c (for WeightSum > 0)
LoadedMean(c) == Div(WeightedSum(Loaded, c), Num(WeightSum(Loaded)))

ValidInEveryLoaded(c) == \A f \in Loaded : ~isnan(normalized_factors[f][c])

\* some factor named in the weight set has no file
WeightedFactorMissing ==
    \E f \in Factors \cap DOMAIN GivenWeights : files[f].status = "absent"

InUnit(x) == Le(Num(0), x) /\ Le(x, Num(1))

InPercent(x) == Le(Num(0), x) /\ Le(x, Num(100))

\* C6: after the division by the applied weight fraction and before the
\* penalty overlay, every cell of the composite lies in [0,1], also when
\* NDVI is among the weighted factors.
C6_BlendInUnitInterval ==
    pc = "penalty" => \A c \in Cells : InUnit(suitability[c])

\* C7: when a weighted factor has no file and at least one weighted factor
\* is loaded, the blended value of a cell valid in every loaded factor is
\* sum(normalized_i * w_i) / sum(w_i) over the loaded factors (where that
\* quotient is defined, sum(w_i) > 0), and the returned values lie in
\* [0,100].
C7_RescaledOverLoadedFactors ==
    (WeightedFactorMissing /\ Loaded # {}) =>
        /\ (pc = "penalty" /\ WeightSum(Loaded) > 0) =>
              \A c \in Cells :
                  ValidInEveryLoaded(c) => suitability[c] = LoadedMean(c)
        /\ pc = "returned" => \A c \in Cells : InPercent(suitability[c])

\* C7 witness: two factors loaded with different positive weights, a third
\* weighted factor without a file, and a blended cell that is their mean.
C7_Witness ==
    /\ pc = "penalty"
    /\ WeightedFactorMissing
    /\ Loaded = {"fertility", "ph"}
    /\ GivenWeights["fertility"] = 25 /\ GivenWeights["ph"] = 75
    /\ "ndvi" \in DOMAIN GivenWeights /\ GivenWeights["ndvi"] = 75
    /\ files["ndvi"].status = "absent"
    /\ Lt(total_weights_used, Num(1))
    /\ \E c \in Cells :
          /\ ValidInEveryLoaded(c)
          /\ normalized_factors["fertility"][c] # normalized_factors["ph"][c]
          /\ suitability[c] = LoadedMean(c)

\* C8: whenever the penalty overlay has run, every cell whose raw NDVI value
\* is 1 or 2 reads exactly 10 in the returned grid, and every cell whose raw
\* value is 5 reads exactly 20.
C8_PenaltyPrecedence ==
    (pc = "returned" /\ overlay_ran) =>
        \A c \in Cells :
            /\ (Eq(RawBand("ndvi")[c], Num(1)) \/ Eq(RawBand("ndvi")[c], Num(2)))
                  => suitability[c] = Num(10)
            /\ Eq(RawBand("ndvi")[c], Num(5)) => suitability[c] = Num(20)

\* C8 witness: a returned grid with a forest cell (raw 5) that reads 20
\* although the weighted mean at that cell is above 1 and another loaded
\* factor scores 1.0 there.
C8_Witness ==
    /\ pc = "returned" /\ overlay_ran
    /\ "fertility" \in Loaded
    /\ WeightSum(Loaded) > 0
    /\ \E c \in Cells :
          /\ Eq(RawBand("ndvi")[c], Num(5))
          /\ normalized_factors["fertility"][c] = Num(1)
          /\ Lt(Num(1), LoadedMean(c))
          /\ suitability[c] = Num(20)

\* x is a multiple of 0.1
IsTenth(x) == ~isnan(x) /\ (10 * x[1]) % x[2] = 0

Bands11 == {Num(10 * k) : k \in 0 .. 10}

\* C9: the composite is a multiple of 0.1 in [0,1] before the x100 rescale,
\* and each non-missing cell of the returned grid is one of 0, 10, ..., 100.
C9_ElevenBands ==
    /\ pc = "percent" =>
          \A c \in Cells :
              ~isnan(suitability[c])
                  => IsTenth(suitability[c]) /\ InUnit(suitability[c])
    /\ pc = "returned" =>
          \A c \in Cells :
              ~isnan(suitability[c]) => suitability[c] \in Bands11

NoFactorFile == \A f \in Factors : files[f].status = "absent"

PositiveTotal == sum_values(GivenWeights) > 0

\* C10: with no factor file in the data folder and a weight set of positive
\* total, calculate_suitability raises FileNotFoundError, no later stage of
\* it runs, and neither caller invokes save_suitability_raster or writes an
\* output file.
C10_EmptyFolderRaises ==
    (NoFactorFile /\ PositiveTotal) =>
        /\ pc \notin {"factors", "rescale", "penalty", "discretize",
                      "percent", "returned", "save"}
        /\ pc \in {"raised", "done"} => exc = "FileNotFoundError"
        /\ save_calls = 0
        /\ ~file_written

\* C10 witness: the background task has ended on the error status after the
\* run on an empty folder.
C10_Witness ==
    /\ NoFactorFile /\ PositiveTotal
    /\ caller = "run_analysis"
    /\ pc = "done"
    /\ exc = "FileNotFoundError"
    /\ current_analysis.status = "error"

\* the fields of the status object agree with each other
StatusConsistent ==
    /\ current_analysis.status = "processing" =>
          current_analysis.progress \in {0, 25, 75}
    /\ current_analysis.status = "completed" => current_analysis.progress = 100
    /\ current_analysis.status = "error" => current_analysis.progress = 0

\* C11: under every interleaving of /analyze requests, run_analysis threads
\* and /status reads, every field of the shared status object was written by
\* one invocation, the latest accepted one (so no earlier invocation has
\* overwritten or altered the status of a later one), and the fields are
\* mutually consistent: processing with progress 0, 25 or 75, completed with
\* 100, error with 0.
C11_StatusNeverCorrupted ==
    accepted > 0 =>
        /\ \A k \in DOMAIN written_by : written_by[k] = accepted
        /\ StatusConsistent

\* threads between thread.start() and their final status write
Running == {t \in Invocations : thread_pc[t] # "ended"}

\* C12: at most one run_analysis thread is between its start and its final
\* status write at any time; a request that arrives while one is running
\* starts no second computation.
C12_AtMostOneComputation == Cardinality(Running) <= 1

\* the run_analysis thread has returned
TaskDone == caller = "run_analysis" /\ pc = "done"

\* the status the finished task has left: error with the message of the
\* exception when calculate_suitability or save_suitability_raster raised,
\* completed with the statistics of the returned grid otherwise
FinalStatusRight ==
    /\ current_analysis.status # "processing"
    /\ exc # "none" =>
          /\ current_analysis.status = "error"
          /\ current_analysis.progress = 0
          /\ current_analysis.message = "Analysis failed: " \o exc
    /\ exc = "none" =>
          /\ current_analysis.status = "completed"
          /\ current_analysis.progress = 100
          /\ "statistics" \in DOMAIN current_analysis
          /\ \A k \in DOMAIN current_analysis.statistics :
                InPercent(current_analysis.statistics[k])

\* positions of the run_analysis thread, in program order
TaskRank(p) ==
    CASE p = "start"      -> 0
      [] p = "weights"    -> 1
      [] p = "reference"  -> 2
      [] p = "factors"    -> 3
      [] p = "rescale"    -> 4
      [] p = "penalty"    -> 5
      [] p = "discretize" -> 6
      [] p = "percent"    -> 7
      [] p = "returned"   -> 8
      [] p = "save"       -> 9
      [] p = "raised"     -> 10
      [] p = "done"       -> 11

\* C13: for a single accepted /analyze request the background task ends
\* with a final status: every step of it moves strictly forward through its
\* finitely many positions, and once it has returned the status is 'error'
\* with the message of the exception if calculate_suitability or
\* save_suitability_raster raised, 'completed' with statistics if the
\* computation went through (skipped factors included), never 'processing'.
C13_TaskEndsWithFinalStatus ==
    /\ [](TaskDone => FinalStatusRight)
    /\ [][caller = "run_analysis" => TaskRank(pc') > TaskRank(pc)]_vars

\* C13 witness: the task has finished as completed, with statistics, after a
\* computation that skipped a weighted factor whose file is missing.
C13_Witness ==
    /\ TaskDone
    /\ WeightedFactorMissing
    /\ Loaded # {}
    /\ file_written
    /\ current_analysis.status = "completed"
    /\ "statistics" \in DOMAIN current_analysis

\* lo <= x < hi, lo < x <= hi and lo <= x <= hi
InCO(x, lo, hi) == Le(lo, x) /\ Lt(x, hi)
InOC(x, lo, hi) == Lt(lo, x) /\ Le(x, hi)
InCC(x, lo, hi) == Le(lo, x) /\ Le(x, hi)

\* exact-match lookup: the entry of table for x, 0 when no key matches
Lookup(table, x) ==
    IF \E k \in DOMAIN table : Eq(x, Num(k))
    THEN table[CHOOSE k \in DOMAIN table : Eq(x, Num(k))]
    ELSE Num(0)

\* the rule table of the factor normalizer, per factor and non-missing raw
\* value: bands for the continuous factors and for fertility, exact-match
\* lookups for the categorical ones, the clamp for an unknown identifier
RuleTable(f, x) ==
    CASE f = "ph" ->
           (CASE Lt(x, Rat(45, 10))                -> Rat(1, 10)
              [] InCO(x, Rat(45, 10), Rat(55, 10)) -> Rat(3, 10)
              [] InCO(x, Rat(55, 10), Num(6))      -> Rat(6, 10)
              [] InCC(x, Num(6), Rat(75, 10))      -> Num(1)
              [] InOC(x, Rat(75, 10), Rat(85, 10)) -> Rat(7, 10)
              [] InOC(x, Rat(85, 10), Num(9))      -> Rat(4, 10)
              [] Lt(Num(9), x)                     -> Rat(1, 10))
      [] f = "fertility" ->
           (CASE Eq(x, Num(0))               -> Num(1)
              [] InOC(x, Num(0), Num(4))     -> Rat(8, 10)
              [] InOC(x, Num(4), Num(8))     -> Rat(6, 10)
              [] InOC(x, Num(8), Num(12))    -> Rat(4, 10)
              [] InOC(x, Num(12), Num(36))   -> Rat(2, 10)
              [] Lt(Num(36), x)              -> Num(0))
      [] f = "ndvi" ->
            Lookup((1 :> Num(10)) @@ (2 :> Num(40)) @@ (3 :> Num(100)) @@
                   (4 :> Num(80)) @@ (5 :> Num(20)), x)
      [] f \in {"nitrogen", "potassium"} ->
            Lookup((5 :> Num(1)), x)
      [] f = "phosphorus" ->
            Lookup((2 :> Num(0)) @@ (3 :> Rat(33, 100)) @@
                   (4 :> Rat(66, 100)) @@ (5 :> Num(1)), x)
      [] f = "soc" ->
           (CASE Lt(x, Num(1))                     -> Rat(2, 10)
              [] InCO(x, Num(1), Rat(15, 10))      -> Rat(4, 10)
              [] InCO(x, Rat(15, 10), Num(2))      -> Rat(6, 10)
              [] InCO(x, Num(2), Rat(25, 10))      -> Rat(8, 10)
              [] Le(Rat(25, 10), x)                -> Num(1))
      [] f = "texture" ->
            Lookup((0 :> Num(0)) @@ (1 :> Rat(2, 10)) @@ (2 :> Rat(33, 100)) @@
                   (4 :> Rat(66, 100)) @@ (5 :> Num(1)), x)
      [] f = "moisture" ->
            Lookup((0 :> Num(0)) @@ (3 :> Rat(5, 10)) @@ (4 :> Rat(7, 10)) @@
                   (5 :> Num(1)) @@ (6 :> Rat(7, 10)) @@ (7 :> Rat(5, 10)) @@
                   (8 :> Rat(3, 10)) @@ (9 :> Rat(1, 10)) @@ (10 :> Num(0)), x)
      [] f = "sulphur" ->
           (CASE Lt(x, Rat(25, 10))                -> Num(0)
              [] InCO(x, Rat(25, 10), Rat(35, 10)) -> Rat(33, 100)
              [] InCO(x, Rat(35, 10), Rat(45, 10)) -> Rat(66, 100)
              [] Le(Rat(45, 10), x)                -> Num(1))
      [] OTHER ->
            IF Lt(x, Num(0)) THEN Num(0)
            ELSE IF Lt(Num(1), x) THEN Num(1)
            ELSE x

====
